---- MODULE Spec2Model ----
(***************************************************************************)
(* Model of src/src/python/gp.py: expected_improvement (lines 31-66) and   *)
(* generate_parameters (lines 68-117).                                     *)
(*                                                                         *)
(* Real numbers are modelled on an integer grid.  A float is a record      *)
(* [k, v]: k = "fin" carries the integer v, the other kinds are the IEEE   *)
(* specials and sys.float_info.max.  The surrogate (sklearn) and the local *)
(* optimizer (scipy) are external: what they return is drawn with \E from  *)
(* everything their interface allows.                                      *)
(***************************************************************************)
EXTENDS Integers, Sequences, FiniteSets

VARIABLES
    \* ---- generate_parameters ----
    pc,             \* "off" | "entry" | "loop" | "done"
    X_obs,          \* argument X_obs: sequence of observed input vectors
    Y_obs,          \* argument Y_obs: one scalar per observation
    bounds,         \* argument bounds: sequence of <<lower, upper>> pairs
    gpr,            \* the GaussianProcessRegressor and the data it was fitted on
    dim,            \* local dim (line 104)
    min_val,        \* local min_val (lines 105, 114)
    min_x,          \* local min_x (lines 106, 115)
    restart,        \* number of iterations of the loop of line 111 completed
    result,         \* how the call ended: a returned list or a raised exception
    \* history of the call (not program state)
    fitCount,       \* calls of gpr.fit
    minimizeCalls,  \* calls of scipy minimize
    acqCalled,      \* TRUE once the acquisition function has been evaluated
    target,         \* an objective value picked when the loop starts
    targetX,        \* res.x of the earliest restart whose res.fun = target
    targetLowest,   \* no restart so far returned a value below target
    tieSeen,        \* a later restart returned target again, at another location
    \* ---- expected_improvement ----
    ei_pc,          \* "off" | "call" | "done"
    mu,             \* gpr.predict(X): posterior mean, length m
    sigma,          \* gpr.predict(X): posterior standard deviation, length m
    mu_sample,      \* gpr.predict(X_obs), length n
    xi,             \* argument xi
    ei,             \* how the call ended: the returned array or a raised exception
    \* ---- keep-minimum as a reduction ----
    red_results,    \* the per-restart results (res.fun, res.x)
    red_left,       \* indices of the results not yet folded
    red_inOrder,    \* the results folded so far were taken in index order
    red_best        \* running best [val, x]

vars == <<pc, X_obs, Y_obs, bounds, gpr, dim, min_val, min_x, restart, result,
          fitCount, minimizeCalls, acqCalled, target, targetX, targetLowest, tieSeen,
          ei_pc, mu, sigma, mu_sample, xi, ei,
          red_results, red_left, red_inOrder, red_best>>

gpVars == <<pc, X_obs, Y_obs, bounds, gpr, dim, min_val, min_x, restart, result,
            fitCount, minimizeCalls, acqCalled, target, targetX, targetLowest, tieSeen>>
eiVars == <<ei_pc, mu, sigma, mu_sample, xi, ei>>
redVars == <<red_results, red_left, red_inOrder, red_best>>

----------------------------------------------------------------------------
(* Bounds of the model *)

\* largest number of coordinates of an observed input vector
MaxDim == 1
\* largest number of bounds pairs
MaxPairs == 2
\* coordinates and bounds lie on the grid 0..MaxCoord
MaxCoord == 1
\* largest number of observations
MaxObs == 2

----------------------------------------------------------------------------
(* Floats *)

Fin(v) == [k |-> "fin", v |-> v]
NaN == [k |-> "nan", v |-> 0]
PosInf == [k |-> "pinf", v |-> 0]
NegInf == [k |-> "ninf", v |-> 0]
\* sys.float_info.max: finite, above every finite value of the model
FloatMax == [k |-> "max", v |-> 0]

Rank(a) ==
    CASE a.k = "ninf" -> 0
      [] a.k = "fin" -> 1
      [] a.k = "max" -> 2
      [] a.k = "pinf" -> 3
      [] OTHER -> 4

\* IEEE a < b: false as soon as one side is NaN
Less(a, b) ==
    /\ a.k # "nan"
    /\ b.k # "nan"
    /\ \/ Rank(a) < Rank(b)
       \/ a.k = "fin" /\ b.k = "fin" /\ a.v < b.v

\* Python's None, for min_x
None == <<>>

----------------------------------------------------------------------------
(* numpy helpers of generate_parameters *)

\* a row of r observed coordinates
Row(r) == [j \in 1..r |-> 0]

\* Xs = np.array(X_obs) is two-dimensional only if every row has one length
IsRagged(X) == \E a, b \in 1..Len(X) : Len(X[a]) # Len(X[b])

\* Xs.shape
Shape(X) ==
    IF Len(X) = 0 THEN <<0>>
    ELSE IF IsRagged(X) THEN <<Len(X)>>
    ELSE <<Len(X), Len(X[1])>>

\* Xs.size
Size(X) ==
    LET s == Shape(X) IN IF Len(s) = 1 THEN s[1] ELSE s[1] * s[2]

\* numpy broadcasts bs[:, 0] of shape (k,) to rows of n coordinates
Broadcastable(k, n) == k = n \/ k = 1

\* every coordinate drawn from the first pair: bs[0, 0], bs[0, 1] written for
\* bs[:, 0], bs[:, 1]
UniformFirstPair(bs, n) ==
    [1..n -> bs[1][1]..bs[1][2]]

\* the draws np.random.uniform(bs[:, 0], bs[:, 1]) can give for n coordinates
\* (lines 94 and 111): coordinate j lies between the lower and the upper bound
\* of pair j, a single pair being broadcast to every coordinate
UniformBox(bs, n) ==
    {x \in [1..n -> 0..MaxCoord] :
        \A j \in 1..n :
            LET b == IF Len(bs) = 1 THEN bs[1] ELSE bs[j]
            IN b[1] <= x[j] /\ x[j] <= b[2]}

\* what a call ends with
Returned(x) == [kind |-> "return", x |-> x, exc |-> ""]
Raised(e) == [kind |-> "raise", x |-> <<>>, exc |-> e]
NoResult == [kind |-> "none", x |-> <<>>, exc |-> ""]

----------------------------------------------------------------------------
(* generate_parameters, lines 68-117 *)

n_restarts == 25

\* the objective values res.fun can carry: two finite values and the IEEE
\* specials
FunVals == {Fin(0), Fin(1), NaN, PosInf, NegInf}

\* the result record of minimize / the exception it raises
Res(x, f) == [kind |-> "res", x |-> x, fun |-> f, exc |-> ""]
ResRaise(e) == [kind |-> "raise", x |-> <<>>, fun |-> NaN, exc |-> e]

\* every coordinate of x respects its pair of bs
InBox(x, bs) ==
    /\ Len(x) = Len(bs)
    /\ \A j \in 1..Len(bs) : bs[j][1] <= x[j] /\ x[j] <= bs[j][2]

\* the grid points of n coordinates that respect bs
Box(bs, n) == {y \in [1..n -> 0..MaxCoord] : InBox(y, bs)}

\* the optimizer called without bounds=bs: res.x is anywhere on the grid
MinimizeUnbounded(x0s, bs) ==
    LET ok == {x0 \in x0s : Len(x0) = Len(bs)}
    IN (IF ok # x0s THEN {ResRaise("ValueError")} ELSE {})
       \cup (IF ok = {} THEN {}
             ELSE {Res(x, f) : x \in [1..Len(bs) -> 0..MaxCoord], f \in FunVals}
                  \cup {ResRaise("OptimizerError")})

\* minimize(min_obj, x0=x0, bounds=bs, method='L-BFGS-B'), line 112, for a
\* start point x0 among x0s: L-BFGS-B rejects bounds whose length differs from
\* x0's, keeps res.x inside the box, reports whatever objective value min_obj
\* gave there (res.fun stands for the one-element array scipy hands back), and
\* lets an exception of the objective or of its own pass to the caller
Minimize(x0s, bs) ==
    LET ok == {x0 \in x0s : Len(x0) = Len(bs)}
    IN (IF ok # x0s THEN {ResRaise("ValueError")} ELSE {})
       \cup (IF ok = {} THEN {}
             ELSE {Res(x, f) : x \in Box(bs, Len(bs)), f \in FunVals}
                  \cup {ResRaise("OptimizerError")})

\* the comparison written with <= : a later tie replaces the best so far
KeepMinLe(best, res) ==
    IF Less(res.fun, best.val) \/ (res.fun = best.val /\ res.fun.k # "nan")
    THEN [val |-> res.fun, x |-> res.x]
    ELSE best

\* the comparison made against the sentinel instead of the running best
KeepMinVsSentinel(best, res) ==
    IF Less(res.fun, FloatMax)
    THEN [val |-> res.fun, x |-> res.x]
    ELSE best

\* lines 113-115: if res.fun < min_val: min_val = res.fun[0]; min_x = res.x
KeepMin(best, res) ==
    IF Less(res.fun, best.val)
    THEN [val |-> res.fun, x |-> res.x]
    ELSE best

\* lines 105-106
Sentinel == [val |-> FloatMax, x |-> None]

Unfitted == [fitted |-> FALSE, X |-> <<>>, Y |-> <<>>]

BoundPairs == {p \in (0..MaxCoord) \X (0..MaxCoord) : p[1] <= p[2]}

ObsInputs ==
    UNION {{[a \in 1..n |-> Row(lens[a])] : lens \in [1..n -> 0..MaxDim]} : n \in 0..MaxObs}

BoundsInputs == UNION {[1..k -> BoundPairs] : k \in 1..MaxPairs}

EIOff ==
    /\ ei_pc = "off"
    /\ mu = <<>>
    /\ sigma = <<>>
    /\ mu_sample = <<>>
    /\ xi = 0
    /\ ei = [kind |-> "none", shape |-> <<>>, val |-> <<>>, exc |-> ""]

RedOff ==
    /\ red_results = <<>>
    /\ red_left = {}
    /\ red_inOrder = TRUE
    /\ red_best = Sentinel

GPLocals ==
    /\ gpr = Unfitted
    /\ dim = 0
    /\ min_val = FloatMax
    /\ min_x = None
    /\ restart = 0
    /\ result = NoResult
    /\ fitCount = 0
    /\ minimizeCalls = 0
    /\ acqCalled = FALSE
    /\ target = FloatMax
    /\ targetX = None
    /\ targetLowest = FALSE
    /\ tieSeen = FALSE

\* a call generate_parameters(acquisition, X_obs, Y_obs, bounds)
Init ==
    /\ pc = "entry"
    /\ X_obs \in ObsInputs
    /\ Y_obs = [a \in 1..Len(X_obs) |-> 0]
    /\ bounds \in BoundsInputs
    /\ GPLocals
    /\ EIOff
    /\ RedOff

Finish(r) ==
    /\ pc' = "done"
    /\ result' = r

\* lines 88-94: no observation, a uniform draw inside bounds is returned
ColdStart ==
    /\ pc = "entry"
    /\ Size(X_obs) = 0
    /\ \E x \in UniformBox(bounds, Len(bounds)) : Finish(Returned(x))
    /\ UNCHANGED <<X_obs, Y_obs, bounds, gpr, dim, min_val, min_x, restart,
                   fitCount, minimizeCalls, acqCalled, target, targetX,
                   targetLowest, tieSeen>>
    /\ UNCHANGED <<eiVars, redVars>>

\* rows of different lengths: np.array (line 88) raises ValueError in numpy
\* >= 1.24; older numpy builds a one-dimensional object array of size n > 0 and
\* gpr.fit (line 102) rejects it with ValueError
RaggedInput ==
    /\ pc = "entry"
    /\ Size(X_obs) # 0
    /\ IsRagged(X_obs)
    /\ \E fitReached \in BOOLEAN : fitCount' = IF fitReached THEN 1 ELSE 0
    /\ Finish(Raised("ValueError"))
    /\ UNCHANGED <<X_obs, Y_obs, bounds, gpr, dim, min_val, min_x, restart,
                   minimizeCalls, acqCalled, target, targetX, targetLowest, tieSeen>>
    /\ UNCHANGED <<eiVars, redVars>>

\* lines 96-106: the surrogate is built and fitted, the locals are set
FitLocals ==
    /\ gpr' = [fitted |-> TRUE, X |-> X_obs, Y |-> Y_obs]
    /\ fitCount' = fitCount + 1
    /\ dim' = Shape(X_obs)[2]
    /\ min_val' = Sentinel.val
    /\ min_x' = Sentinel.x

\* lines 96-111: fit, then the n_restarts start points are drawn
Fit ==
    /\ pc = "entry"
    /\ Size(X_obs) # 0
    /\ ~IsRagged(X_obs)
    /\ Broadcastable(Len(bounds), Shape(X_obs)[2])
    /\ FitLocals
    /\ pc' = "loop"
    /\ target' \in FunVals \ {NaN, PosInf}
    /\ targetLowest' = TRUE
    /\ UNCHANGED <<X_obs, Y_obs, bounds, restart, result, minimizeCalls, acqCalled,
                   targetX, tieSeen>>
    /\ UNCHANGED <<eiVars, redVars>>

\* lines 96-111: fit, then np.random.uniform cannot broadcast the bounds to
\* size=(n_restarts, dim) and raises ValueError
FitThenDrawFails ==
    /\ pc = "entry"
    /\ Size(X_obs) # 0
    /\ ~IsRagged(X_obs)
    /\ ~Broadcastable(Len(bounds), Shape(X_obs)[2])
    /\ FitLocals
    /\ Finish(Raised("ValueError"))
    /\ UNCHANGED <<X_obs, Y_obs, bounds, restart, minimizeCalls, acqCalled,
                   target, targetX, targetLowest, tieSeen>>
    /\ UNCHANGED <<eiVars, redVars>>

\* what one iteration's minimize call can give: its start point is one of the
\* rows np.random.uniform draws at line 111
RestartOutcomes == Minimize(UniformBox(bounds, dim), bounds)

\* the history of the restart whose result is res
Observe(res) ==
    IF ~targetLowest
    THEN UNCHANGED <<targetX, targetLowest, tieSeen>>
    ELSE IF Less(res.fun, target)
    THEN targetLowest' = FALSE /\ targetX' = None /\ tieSeen' = FALSE
    ELSE IF res.fun = target
    THEN /\ targetLowest' = TRUE
         /\ targetX' = IF targetX = None THEN res.x ELSE targetX
         /\ tieSeen' = (tieSeen \/ (targetX # None /\ res.x # targetX))
    ELSE UNCHANGED <<targetX, targetLowest, tieSeen>>

\* lines 111-115, one iteration in which minimize returns
Restart ==
    /\ pc = "loop"
    /\ restart < n_restarts
    /\ \E res \in RestartOutcomes :
        /\ res.kind = "res"
        /\ LET best == KeepMin([val |-> min_val, x |-> min_x], res)
           IN min_val' = best.val /\ min_x' = best.x
        /\ Observe(res)
    /\ restart' = restart + 1
    /\ minimizeCalls' = minimizeCalls + 1
    /\ acqCalled' = TRUE
    /\ UNCHANGED <<pc, X_obs, Y_obs, bounds, gpr, dim, result, fitCount, target>>
    /\ UNCHANGED <<eiVars, redVars>>

\* line 112, minimize raises: nothing catches it, the call ends with it
RestartRaises ==
    /\ pc = "loop"
    /\ restart < n_restarts
    /\ \E res \in RestartOutcomes :
        /\ res.kind = "raise"
        /\ Finish(Raised(res.exc))
        /\ acqCalled' = (acqCalled \/ res.exc # "ValueError")
    /\ minimizeCalls' = minimizeCalls + 1
    /\ UNCHANGED <<X_obs, Y_obs, bounds, gpr, dim, min_val, min_x, restart,
                   fitCount, target, targetX, targetLowest, tieSeen>>
    /\ UNCHANGED <<eiVars, redVars>>

\* line 117 with a recorded best: min_x.tolist()
ReturnBest ==
    /\ pc = "loop"
    /\ restart = n_restarts
    /\ min_x # None
    /\ Finish(Returned(min_x))
    /\ UNCHANGED <<X_obs, Y_obs, bounds, gpr, dim, min_val, min_x, restart,
                   fitCount, minimizeCalls, acqCalled, target, targetX,
                   targetLowest, tieSeen>>
    /\ UNCHANGED <<eiVars, redVars>>

\* line 117 with min_x still None: None has no tolist, AttributeError
ReturnNone ==
    /\ pc = "loop"
    /\ restart = n_restarts
    /\ min_x = None
    /\ Finish(Raised("AttributeError"))
    /\ UNCHANGED <<X_obs, Y_obs, bounds, gpr, dim, min_val, min_x, restart,
                   fitCount, minimizeCalls, acqCalled, target, targetX,
                   targetLowest, tieSeen>>
    /\ UNCHANGED <<eiVars, redVars>>

Next ==
    \/ ColdStart
    \/ RaggedInput
    \/ Fit
    \/ FitThenDrawFails
    \/ Restart
    \/ RestartRaises
    \/ ReturnBest
    \/ ReturnNone

Spec == Init /\ [][Next]_vars

----------------------------------------------------------------------------
(* expected_improvement, lines 31-66.  Means and deviations are integers,   *)
(* Z is held in halves and the scores in thousandths.                       *)

\* largest batch of candidates
MaxBatch == 2
\* posterior means lie in -MaxMu..MaxMu
MaxMu == 1

MuVals == (0 - MaxMu)..MaxMu
\* posterior standard deviations: never negative, and such that 2 * imp / sigma
\* is whole
SigmaVals == {0, 1, 2}
XiVals == {0, 1}

\* 1000 * Phi(z) and 1000 * phi(z) for z = 0, 0.5, ..., 4
PhiTable == <<500, 691, 841, 933, 977, 994, 999, 1000, 1000>>
DensityTable == <<399, 352, 242, 130, 54, 18, 4, 1, 0>>

Abs(n) == IF n < 0 THEN 0 - n ELSE n

\* imp / sigma, line 62, in halves; IEEE division when sigma is 0
Div(a, s) ==
    IF s # 0 THEN Fin((2 * a) \div s)
    ELSE IF a > 0 THEN PosInf
    ELSE IF a < 0 THEN NegInf
    ELSE NaN

\* norm.cdf(Z) in thousandths, Z not NaN
Cdf(Z) ==
    IF Z.k = "pinf" THEN 1000
    ELSE IF Z.k = "ninf" THEN 0
    ELSE LET t == IF Abs(Z.v) >= Len(PhiTable) THEN 1000 ELSE PhiTable[Abs(Z.v) + 1]
         IN IF Z.v < 0 THEN 1000 - t ELSE t

\* norm.pdf(Z) in thousandths, Z not NaN
Pdf(Z) ==
    IF Z.k # "fin" THEN 0
    ELSE IF Abs(Z.v) >= Len(DensityTable) THEN 0 ELSE DensityTable[Abs(Z.v) + 1]

\* lines 62-63 for one element: imp * norm.cdf(Z) + sigma * norm.pdf(Z)
EITerm(a, s) ==
    LET Z == Div(a, s)
    IN IF Z.k = "nan" THEN NaN ELSE Fin(a * Cdf(Z) + s * Pdf(Z))

\* np.max(mu_sample), line 58
MaxOf(q) == CHOOSE v \in {q[a] : a \in 1..Len(q)} : \A b \in 1..Len(q) : q[b] <= v

\* line 61: imp = mu - mu_sample_opt - xi, shape (m,)
Imp(muv, opt, x) == [j \in 1..Len(muv) |-> muv[j] - opt - x]

\* lines 56, 62-63: sigma has shape (m, 1) and imp shape (m,), so numpy
\* broadcasts Z and ei to shape (m, m): row i holds sigma[i], column j imp[j]
Broadcast(impv, sg) ==
    [a \in 1..Len(sg) |-> [j \in 1..Len(impv) |-> EITerm(impv[j], sg[a])]]

\* line 64: ei[sigma == 0.0] = 0.0.  The mask has sigma's shape (m, 1); numpy
\* takes a boolean index only of the indexed array's shape (m, m), else it
\* raises IndexError
MaskFits(m) == <<m, 1>> = <<m, m>>

MaskAssign(arr, sg) ==
    [a \in 1..Len(arr) |-> [j \in 1..Len(arr[a]) |-> IF sg[a] = 0 THEN Fin(0) ELSE arr[a][j]]]

EIReturn(shape, val) == [kind |-> "return", shape |-> shape, val |-> val, exc |-> ""]
EIRaise(e) == [kind |-> "raise", shape |-> <<>>, val |-> <<>>, exc |-> e]

GPOff ==
    /\ pc = "off"
    /\ X_obs = <<>>
    /\ Y_obs = <<>>
    /\ bounds = <<>>
    /\ GPLocals

\* a call expected_improvement(X, X_obs, Y_obs, gpr, xi) with the predictions
\* the surrogate gives for it (lines 53-54)
InitEI ==
    /\ ei_pc = "call"
    /\ \E m \in 1..MaxBatch :
        /\ mu \in [1..m -> MuVals]
        /\ sigma \in [1..m -> SigmaVals]
    /\ \E n \in 1..MaxObs : mu_sample \in [1..n -> MuVals]
    /\ xi \in XiVals
    /\ ei = [kind |-> "none", shape |-> <<>>, val |-> <<>>, exc |-> ""]
    /\ GPOff
    /\ RedOff

\* lines 53-66
expected_improvement ==
    /\ ei_pc = "call"
    /\ LET m == Len(mu)
           arr == Broadcast(Imp(mu, MaxOf(mu_sample), xi), sigma)
       IN ei' = IF MaskFits(m)
                THEN EIReturn(<<m, m>>, MaskAssign(arr, sigma))
                ELSE EIRaise("IndexError")
    /\ ei_pc' = "done"
    /\ UNCHANGED <<mu, sigma, mu_sample, xi>>
    /\ UNCHANGED <<gpVars, redVars>>

NextEI == expected_improvement

SpecEI == InitEI /\ [][NextEI]_vars

----------------------------------------------------------------------------
(* The loop of lines 111-115 as a reduction: the same update applied to the *)
(* restarts' results in any order.                                          *)

\* largest number of results reduced
MaxResults == 3

\* one-dimensional result locations
RedResults == {Res(x, f) : x \in [1..1 -> 0..MaxCoord], f \in FunVals}

RECURSIVE SeqFold(_, _)
\* lines 105-115 over the first n results, in iteration order
SeqFold(rs, n) ==
    IF n = 0 THEN Sentinel ELSE KeepMin(SeqFold(rs, n - 1), rs[n])

InitRed ==
    /\ \E n \in 1..MaxResults :
        /\ red_results \in [1..n -> RedResults]
        /\ red_left = 1..n
    /\ red_inOrder = TRUE
    /\ red_best = Sentinel
    /\ GPOff
    /\ EIOff

\* the reducer takes any result not yet folded and applies lines 113-115
Fold ==
    /\ red_left # {}
    /\ \E a \in red_left :
        /\ red_best' = KeepMin(red_best, red_results[a])
        /\ red_left' = red_left \ {a}
        /\ red_inOrder' = (red_inOrder /\ \A b \in red_left : a <= b)
    /\ UNCHANGED red_results
    /\ UNCHANGED <<gpVars, eiVars>>

NextRed == Fold

SpecReduce == InitRed /\ [][NextRed]_vars

----------------------------------------------------------------------------
(* Properties of generate_parameters, checked under Spec *)

Done == pc = "done"
NonEmpty == Size(X_obs) # 0

\* the observations are rectangular and there is one bounds pair per coordinate
ValidShapes ==
    /\ NonEmpty
    /\ ~IsRagged(X_obs)
    /\ Len(bounds) = Shape(X_obs)[2]

\* the loop ran to its end
LoopCompleted == restart = n_restarts

\* C1: a call with an empty observation set never fits the surrogate, never
\* evaluates the acquisition function and never calls the optimizer, and it
\* returns a location with one coordinate per bounds pair, each coordinate
\* between its lower and its upper bound.
C1_ColdStart ==
    ~NonEmpty =>
        /\ fitCount = 0
        /\ ~gpr.fitted
        /\ ~acqCalled
        /\ minimizeCalls = 0
        /\ Done =>
            /\ result.kind = "return"
            /\ Len(result.x) = Len(bounds)
            /\ \A j \in 1..Len(bounds) :
                bounds[j][1] <= result.x[j] /\ result.x[j] <= bounds[j][2]

\* a cold start has returned for two bounds pairs that share no point
C1_Witness ==
    /\ Done
    /\ ~NonEmpty
    /\ result.kind = "return"
    /\ Len(bounds) = 2
    /\ bounds[1][2] < bounds[2][1]

\* C2: with a non-empty observation set every returned location lies inside
\* bounds, whatever the restarts gave.
C2_InBounds ==
    (Done /\ NonEmpty /\ result.kind = "return") => InBox(result.x, bounds)

\* a location was returned after the loop, from a box narrower than the grid
C2_Witness ==
    /\ Done
    /\ NonEmpty
    /\ LoopCompleted
    /\ result.kind = "return"
    /\ \E j \in 1..Len(bounds) : 0 < bounds[j][1]

\* C3: when no restart improved on the sentinel, the call ends with an
\* explicit "no candidate found" error.
C3_NoCandidateError ==
    (Done /\ NonEmpty /\ LoopCompleted /\ min_x = None)
        => result = Raised("NoCandidateFound")

\* C4: a restart whose optimization raised or gave a non-finite value never
\* becomes the best so far and never ends the call.
C4_FailedRestartSkipped ==
    /\ min_val.k \in {"fin", "max"}
    /\ result.exc # "OptimizerError"

\* C5: with ragged observations, or a number of bounds pairs other than the
\* observations' dimensionality, the call ends with an error raised at entry:
\* before the surrogate is fitted and before any restart.
C5_InvalidShapeFailsFast ==
    (Done /\ NonEmpty /\ ~ValidShapes) =>
        /\ result.kind = "raise"
        /\ fitCount = 0
        /\ minimizeCalls = 0

\* C8: the returned location is res.x of the earliest restart that attained
\* the lowest objective value of all restarts, and min_val is that value.
C8_EarliestLowest ==
    (Done /\ NonEmpty /\ result.kind = "return" /\ targetLowest /\ targetX # None)
        => (result.x = targetX /\ min_val = target)

\* a location was returned although a later restart tied with the lowest value
\* at another location
C8_Witness ==
    /\ Done
    /\ NonEmpty
    /\ result.kind = "return"
    /\ targetLowest
    /\ targetX # None
    /\ tieSeen

\* C9: a call with a non-empty, well-formed observation set has fitted the
\* surrogate exactly once and started exactly n_restarts optimizations when
\* it ends, and no optimization starts before the fit.
C9_FitOnceThenAllRestarts ==
    /\ (minimizeCalls > 0 => fitCount = 1)
    /\ (Done /\ ValidShapes) =>
        /\ fitCount = 1
        /\ minimizeCalls = n_restarts
        /\ LoopCompleted

\* the restarts only read the fitted surrogate and the observation set (the
\* read-only sharing C10 relies on)
RestartsReadOnly ==
    [][pc = "loop" => (gpr' = gpr /\ X_obs' = X_obs /\ Y_obs' = Y_obs /\ bounds' = bounds)]_vars

----------------------------------------------------------------------------
(* Properties of expected_improvement, checked under SpecEI *)

\* the batch has a candidate without and a candidate with uncertainty
MixedSigma ==
    /\ \E a \in 1..Len(sigma) : sigma[a] = 0
    /\ \E a \in 1..Len(sigma) : sigma[a] > 0

\* C6: for a batch with zero and positive deviations the call raises nothing,
\* the score of every candidate with sigma 0 is 0 and the score of every other
\* candidate is the closed form of its own imp and sigma.
C6_MixedBatch ==
    (ei_pc = "done" /\ MixedSigma) =>
        /\ ei.kind = "return"
        /\ Len(ei.val) = Len(sigma)
        /\ \A a \in 1..Len(sigma) :
            ei.val[a] = IF sigma[a] = 0
                        THEN Fin(0)
                        ELSE EITerm(Imp(mu, MaxOf(mu_sample), xi)[a], sigma[a])

\* C7: a batch of m candidates gives a one-dimensional result of m scores.
C7_LengthM ==
    ei_pc = "done" => (ei.kind = "return" /\ ei.shape = <<Len(mu)>>)

----------------------------------------------------------------------------
(* Properties of the reduction, checked under SpecReduce *)

Reduced == red_left = {}
AllResults == SeqFold(red_results, Len(red_results))

\* the results that carry the value v
Attaining(v) == {a \in 1..Len(red_results) : red_results[a].fun = v}

\* C10 as stated: whatever the order in which the results are folded, the best
\* value and the best location retained are those of the sequential loop.
C10_OrderIndependent ==
    Reduced => red_best = AllResults

\* C10 amended: in every order the best value retained is that of the
\* sequential loop and the location retained belongs to a result with that
\* value; the location is that of the sequential loop whenever all results
\* with that value share one location.
C10_ValueOrderIndependent ==
    Reduced =>
        /\ red_best.val = AllResults.val
        /\ \/ red_best = Sentinel
           \/ \E a \in Attaining(red_best.val) : red_results[a].x = red_best.x
        /\ (\A a, b \in Attaining(red_best.val) : red_results[a].x = red_results[b].x)
            => red_best.x = AllResults.x

\* results of different values were folded out of index order and a best was
\* retained
C10_Witness ==
    /\ Reduced
    /\ ~red_inOrder
    /\ red_best # Sentinel
    /\ \E a, b \in 1..Len(red_results) : Less(red_results[a].fun, red_results[b].fun)

====
